---- MODULE Spec2Model ----
(***************************************************************************)
(* Batch AI Task Runner (src/app.py): a Streamlit script that is re-run    *)
(* from top to bottom on every operator interaction.  One step of the      *)
(* model is one run of the script.  Text is modelled as sequences of       *)
(* one-character strings so that concatenation, str.replace and the        *)
(* engine's format_string are computed rather than assumed.                *)
(***************************************************************************)
EXTENDS Integers, Sequences, FiniteSets, TLC

\* ---------------------------------------------------------------- bounds
\* number of distinct values uuid4() may return in a session
NumIds == 2
\* number of Submit presses followed in one session
MaxJobs == 2

\* ------------------------------------------------------- string literals
S_user_upload == <<"u", "s", "e", "r", "_", "u", "p", "l", "o", "a", "d", "_">>

S_user_upload_processed == <<"u", "s", "e", "r", "_", "u", "p", "l", "o", "a", "d", "_", "p", "r", "o", "c", "e", "s", "s", "e", "d", "_">>

S_tmp == <<"t", "m", "p", ".">>

S_processed == <<"p", "r", "o", "c", "e", "s", "s", "e", "d">>

S_evaluated == <<"e", "v", "a", "l", "u", "a", "t", "e", "d">>

S_at == <<"@">>

S_slash == <<"/">>

S_quote == <<"'">>

S_pct_s == <<"%", "s">>

\* values the environment may hold for DATA_VOLUME_PATH and
\* DATABRICKS_SQL_ENDPOINT; <<>> stands for an unset (or empty) variable
SampleVolume == <<"c", ".", "s", ".", "v">>

SampleHttpPath == <<"/", "s", "q", "l", "/", "w", "1">>

SampleToken == <<"t", "o", "k">>

\* cell values of the uploaded table
V_cat == <<"T", "h", "e", " ", "c", "a", "t", " ", "s", "a", "t", ".">>

V_dog == <<"D", "o", "g", "s", " ", "b", "a", "r", "k", " ", "1", "0", "0", "%">>

V_note == <<"n", "/", "a">>


\* --------------------------------------------------------- the selectors
Tasks == {"Sentiment Analysis", "Topic Classification", "Summarization"}

prompt_map == [t \in Tasks |->
    CASE t = "Sentiment Analysis" -> <<"D", "e", "t", "e", "r", "m", "i", "n", "e", " ", "t", "h", "e", " ", "s", "e", "n", "t", "i", "m", "e", "n", "t", " ", "(", "p", "o", "s", "i", "t", "i", "v", "e", "/", "n", "e", "g", "a", "t", "i", "v", "e", "/", "n", "e", "u", "t", "r", "a", "l", ")", " ", "o", "f", ":", " ", "\"", "{", "}", "\"">>
      [] t = "Topic Classification" -> <<"C", "l", "a", "s", "s", "i", "f", "y", " ", "t", "h", "e", " ", "t", "o", "p", "i", "c", " ", "o", "f", ":", " ", "\"", "{", "}", "\"">>
      [] t = "Summarization" -> <<"S", "u", "m", "m", "a", "r", "i", "z", "e", " ", "t", "h", "e", " ", "f", "o", "l", "l", "o", "w", "i", "n", "g", " ", "t", "e", "x", "t", ":", " ", "\"", "{", "}", "\"">>]

EvalTemplate == <<"E", "v", "a", "l", "u", "a", "t", "e", " ", "t", "h", "i", "s", " ", "r", "e", "s", "u", "l", "t", ":", " ", "\"", "%", "s", "\"", ".", " ", "I", "s", " ", "i", "t", " ", "a", "c", "c", "u", "r", "a", "t", "e", "?", " ", "R", "e", "s", "p", "o", "n", "d", " ", "Y", "e", "s", "/", "N", "o", " ", "w", "i", "t", "h", " ", "a", " ", "b", "r", "i", "e", "f", " ", "e", "x", "p", "l", "a", "n", "a", "t", "i", "o", "n", ".">>


\* ------------------------------------------------------------ job identity
HexDigits == <<"0", "1", "2", "3", "4", "5", "6", "7", "8", "9", "a", "b", "c", "d", "e", "f">>

\* length of the truncated identifier, uuid4().hex[:8]
IdLen == 8

\* lowercase hexadecimal rendering of the leading digits of a uuid
Hex8(n) == [i \in 1..IdLen |-> HexDigits[((n \div (16 ^ (IdLen - i))) % 16) + 1]]

\* the leading bits of the values uuid4() may return; nothing in the code
\* prevents two calls from returning values with the same leading bits
Uuid4Values == {k * 506952121 : k \in 0..(NumIds - 1)}

JobIds == {Hex8(n) : n \in Uuid4Values}

temp_table(job_id) == S_user_upload \o job_id

\* the name built without the identifier
out_table_noid(job_id) == S_user_upload_processed

out_table(job_id) == S_user_upload_processed \o job_id

volume_path(volume, job_id) == S_at \o volume \o S_slash \o temp_table(job_id)

\* ------------------------------------------------------------ text helpers
OccursAt(s, sub, i) ==
    /\ i + Len(sub) - 1 <= Len(s)
    /\ SubSeq(s, i, i + Len(sub) - 1) = sub

\* position of the first occurrence of sub in s at or after i, 0 when none
FirstAt(s, sub, i) ==
    LET hits == {k \in i..Len(s) : OccursAt(s, sub, k)}
    IN  IF hits = {} THEN 0 ELSE CHOOSE k \in hits : \A h \in hits : k <= h

RECURSIVE ReplaceFrom(_, _, _, _)
ReplaceFrom(s, old, new, i) ==
    LET k == FirstAt(s, old, i)
    IN  IF k = 0 THEN SubSeq(s, i, Len(s))
        ELSE SubSeq(s, i, k - 1) \o new \o ReplaceFrom(s, old, new, k + Len(old))

\* Python str.replace(old, new): every non-overlapping occurrence, left to right
Replace(s, old, new) == ReplaceFrom(s, old, new, 1)

RECURSIVE CountFrom(_, _, _)
CountFrom(s, sub, i) ==
    LET k == FirstAt(s, sub, i)
    IN  IF k = 0 THEN 0 ELSE 1 + CountFrom(s, sub, k + Len(sub))

\* Python str.count(sub)
Count(s, sub) == CountFrom(s, sub, 1)

\* repr() of a text holding neither a single quote nor a backslash
repr(s) == S_quote \o s \o S_quote

\* value denoted by such a quoted SQL literal
Literal(q) == SubSeq(q, 2, Len(q) - 1)

RECURSIVE Printf(_, _, _)
Printf(fmt, args, i) ==
    LET k == FirstAt(fmt, <<"%">>, i)
    IN  IF k = 0 THEN SubSeq(fmt, i, Len(fmt))
        ELSE IF OccursAt(fmt, S_pct_s, k) /\ args # <<>>
             THEN SubSeq(fmt, i, k - 1) \o Head(args) \o Printf(fmt, Tail(args), k + 2)
        ELSE IF OccursAt(fmt, <<"%", "%">>, k)
             THEN SubSeq(fmt, i, k) \o Printf(fmt, args, k + 2)
        ELSE SubSeq(fmt, i, k) \o Printf(fmt, args, k + 1)

\* the engine's format_string: printf-style, as the evaluation statement
\* uses it ('... "%s" ...'); arguments without a conversion are dropped
format_string(fmt, args) == Printf(fmt, args, 1)

\* ------------------------------------------------------------ the upload
Uploads == {"absent", "malformed", "csv"}

\* df.columns.tolist() of the uploaded table
Columns == {"text", "note"}

\* the rows of the uploaded table
Rows == {[text |-> V_cat, note |-> V_note], [text |-> V_dog, note |-> V_note]}

\* ------------------------------------------------------------ statements
NoStmt == [table |-> <<>>, location |-> <<>>, fmt |-> <<>>, args |-> <<>>, from |-> <<>>]

\* sdf.write...option("path", volume_path).saveAsTable(f"tmp.{temp_table}")
saveAsTable(volume, job_id) ==
    [NoStmt EXCEPT !.table = S_tmp \o temp_table(job_id),
                   !.location = volume_path(volume, job_id)]

\* CREATE OR REPLACE TABLE tmp.{out_table} ... LOCATION '{volume_path}' AS
\* SELECT *, ai_query(model, format_string(<fmt>, <args>)) FROM tmp.{temp_table}
sql_stmt(volume, job_id, task, text_col) ==
    [table |-> S_tmp \o out_table(job_id),
     location |-> volume_path(volume, job_id),
     fmt |-> repr(prompt_map[task]),
     args |-> <<text_col>>,
     from |-> S_tmp \o temp_table(job_id)]

\* the arguments of replace exchanged
eval_table_swapped(pointer) == Replace(pointer, S_evaluated, S_processed)

eval_table(pointer) == Replace(pointer, S_processed, S_evaluated)

\* the statement reading from the table it creates
eval_sql_self(volume, pointer) ==
    [table |-> eval_table(pointer),
     location |-> S_at \o volume \o S_slash \o eval_table(pointer),
     fmt |-> repr(EvalTemplate),
     args |-> <<"ai_result">>,
     from |-> eval_table(pointer)]

eval_sql(volume, pointer) ==
    [table |-> eval_table(pointer),
     location |-> S_at \o volume \o S_slash \o eval_table(pointer),
     fmt |-> repr(EvalTemplate),
     args |-> <<"ai_result">>,
     from |-> pointer]

\* the three qualified table names one job id gives rise to
TableNames(job_id) ==
    {S_tmp \o temp_table(job_id),
     S_tmp \o out_table(job_id),
     eval_table(S_tmp \o out_table(job_id))}

\* SELECT * FROM {st.session_state['out_table']}
read_sql(pointer) == [NoStmt EXCEPT !.from = pointer]

\* the prompt the engine hands to ai_query for one row of the source table
RowPrompt(stmt, row) == format_string(Literal(stmt.fmt), <<row[stmt.args[1]]>>)

\* ------------------------------------------------------------ session
EmptyDict == [k \in {} |-> <<>>]

TokenHeader == "X-Forwarded-Access-Token"

HeaderSets == {EmptyDict, TokenHeader :> <<>>, TokenHeader :> SampleToken}

\* `token is None` in place of `not token`
TokenMissing_NoneOnly(headers) == TokenHeader \notin DOMAIN headers

\* `not token` for token = headers.get("X-Forwarded-Access-Token")
TokenMissing(headers) ==
    \/ TokenHeader \notin DOMAIN headers
    \/ headers[TokenHeader] = <<>>

HasOutTable(ss) == "out_table" \in DOMAIN ss

\* the assignment placed ahead of app_conn.execute
SubmitState_Always(ss, job_id, s1ok) == "out_table" :> (S_tmp \o out_table(job_id))

\* the assignment made only while the key is absent (setdefault)
SubmitState_KeepFirst(ss, job_id, s1ok) ==
    IF s1ok /\ ~HasOutTable(ss) THEN ("out_table" :> (S_tmp \o out_table(job_id))) ELSE ss

\* st.session_state["out_table"] = f"tmp.{out_table}", reached only when
\* app_conn.execute returned
SubmitState(ss, job_id, s1ok) ==
    IF s1ok THEN ("out_table" :> (S_tmp \o out_table(job_id))) ELSE ss

Call(kind, conn, stmt, ok) == [kind |-> kind, conn |-> conn, stmt |-> stmt, ok |-> ok]

VARIABLES
    VOLUME_NAME,    \* os.environ.get("DATA_VOLUME_PATH"), <<>> when unset
    HTTP_PATH,      \* os.environ.get("DATABRICKS_SQL_ENDPOINT"), <<>> when unset
    cfg,            \* host and credentials read by Config(): "ok" or "missing"
    session_state,  \* st.session_state, kept across runs
    run,            \* inputs, the locals it used and outcome of the latest script run
    calls,          \* remote calls issued by the latest run, in order
    jobs            \* per Submit press: the job id minted and the call that failed

vars == <<VOLUME_NAME, HTTP_PATH, cfg, session_state, run, calls, jobs>>

env == <<VOLUME_NAME, HTTP_PATH, cfg>>

Buttons == {"none", "submit", "fetch", "evaluate"}

NoRun == [uploaded |-> "absent", button |-> "none", headers |-> EmptyDict,
          text_col |-> "-", task |-> "-", job_id |-> <<>>,
          block |-> "none", outcome |-> "init"]

Init ==
    /\ VOLUME_NAME \in {<<>>, SampleVolume}
    /\ HTTP_PATH \in {<<>>, SampleHttpPath}
    /\ cfg \in {"ok", "missing"}
    /\ session_state = EmptyDict
    /\ run = NoRun
    /\ calls = <<>>
    /\ jobs = <<>>

\* lines 10-16: Config() may reject missing host or credentials; the only
\* value the script itself tests is VOLUME_NAME
Startup(raises) ==
    IF cfg = "missing" /\ raises THEN "exception"
    ELSE IF VOLUME_NAME = <<>> THEN "config_error"
    ELSE "continue"

\* a parse failure swallowed instead of raised
UploadGate_lenient(uploaded) ==
    CASE uploaded = "absent" -> "stopped"
      [] OTHER -> "continue"

\* lines 44-50: st.stop() without an upload, pd.read_csv raises on a bad one
UploadGate(uploaded) ==
    CASE uploaded = "absent" -> "stopped"
      [] uploaded = "malformed" -> "exception"
      [] OTHER -> "continue"

Prefix(uploaded, raises) ==
    IF Startup(raises) # "continue" THEN Startup(raises) ELSE UploadGate(uploaded)

\* the script gets past line 50 with this upload
Reaches(uploaded) == \E raises \in BOOLEAN : Prefix(uploaded, raises) = "continue"

\* a run that ends before any widget below the uploader is drawn
Halted ==
    \E uploaded \in Uploads, button \in Buttons, raises \in BOOLEAN :
        /\ Prefix(uploaded, raises) # "continue"
        /\ run' = [NoRun EXCEPT !.uploaded = uploaded, !.button = button,
                                !.outcome = Prefix(uploaded, raises)]
        /\ calls' = <<>>
        /\ UNCHANGED <<env, session_state, jobs>>

\* a run in which no button is pressed (a selector changed)
Rerun ==
    \E uploaded \in Uploads, text_col \in Columns, task \in Tasks :
        /\ Reaches(uploaded)
        /\ run' = [NoRun EXCEPT !.uploaded = uploaded, !.text_col = text_col,
                                !.task = task, !.outcome = "ok"]
        /\ calls' = <<>>
        /\ UNCHANGED <<env, session_state, jobs>>

\* sql.connect(server_hostname=cfg.host, http_path=HTTP_PATH, ...) opens a
\* session only when it is given a host, credentials and an endpoint path
Connectable == HTTP_PATH # <<>> /\ cfg = "ok"

\* the remote call at which a run may fail: any of those it reaches, `after`
\* standing for the calls that follow the connection
Failures(before, after) ==
    before \cup {"connect"} \cup (IF Connectable THEN after \cup {"none"} ELSE {})

\* lines 62-84
SubmitBatchJob ==
    \E uploaded \in Uploads, text_col \in Columns, task \in Tasks, job_id \in JobIds,
       fails \in Failures({"saveAsTable"}, {"execute"}) :
        LET s0ok == fails # "saveAsTable"
            connok == fails # "connect"
            execok == fails # "execute"
            s1ok == fails = "none"
            write == Call("saveAsTable", "spark", saveAsTable(VOLUME_NAME, job_id), s0ok)
            conn == Call("connect", "app", NoStmt, connok)
            exec == Call("execute", "app", sql_stmt(VOLUME_NAME, job_id, task, text_col), execok)
        IN  /\ Reaches(uploaded)
            /\ Len(jobs) < MaxJobs
            /\ calls' = IF ~s0ok THEN <<write>>
                        ELSE IF ~connok THEN <<write, conn>>
                        ELSE <<write, conn, exec>>
            /\ session_state' = SubmitState(session_state, job_id, s1ok)
            /\ jobs' = Append(jobs, [id |-> job_id, failed |-> fails])
            /\ run' = [NoRun EXCEPT !.uploaded = uploaded, !.button = "submit",
                                    !.text_col = text_col, !.task = task,
                                    !.job_id = job_id, !.block = "submit",
                                    !.outcome = IF s1ok THEN "success" ELSE "exception"]
            /\ UNCHANGED env

\* lines 87-90 with get_user_conn, lines 30-39
FetchResults ==
    \E uploaded \in Uploads, headers \in HeaderSets,
       fails \in Failures({}, {"read_sql"}) :
        LET connok == fails # "connect"
            readok == fails # "read_sql"
            conn == Call("connect", "user", NoStmt, connok)
            read == Call("read_sql", "user", read_sql(session_state["out_table"]), readok)
            base == [NoRun EXCEPT !.uploaded = uploaded, !.button = "fetch",
                                  !.headers = headers]
        IN  /\ Reaches(uploaded)
            /\ IF ~HasOutTable(session_state)
               THEN /\ run' = [base EXCEPT !.outcome = "ok"]
                    /\ calls' = <<>>
               ELSE IF TokenMissing(headers)
               THEN /\ run' = [base EXCEPT !.block = "fetch", !.outcome = "auth_error"]
                    /\ calls' = <<>>
               ELSE /\ run' = [base EXCEPT !.block = "fetch",
                                  !.outcome = IF connok /\ readok THEN "ok" ELSE "exception"]
                    /\ calls' = IF connok THEN <<conn, read>> ELSE <<conn>>
            /\ UNCHANGED <<env, session_state, jobs>>

\* lines 93-107
RunEvaluation ==
    \E uploaded \in Uploads, fails \in Failures({}, {"execute"}) :
        LET connok == fails # "connect"
            execok == fails # "execute"
            conn == Call("connect", "app", NoStmt, connok)
            exec == Call("execute", "app", eval_sql(VOLUME_NAME, session_state["out_table"]), execok)
            base == [NoRun EXCEPT !.uploaded = uploaded, !.button = "evaluate"]
        IN  /\ Reaches(uploaded)
            /\ IF ~HasOutTable(session_state)
               THEN /\ run' = [base EXCEPT !.outcome = "ok"]
                    /\ calls' = <<>>
               ELSE /\ run' = [base EXCEPT !.block = "evaluate",
                                  !.outcome = IF connok /\ execok THEN "success" ELSE "exception"]
                    /\ calls' = IF connok THEN <<conn, exec>> ELSE <<conn>>
            /\ UNCHANGED <<env, session_state, jobs>>

Next ==
    \/ Halted
    \/ Rerun
    \/ SubmitBatchJob
    \/ FetchResults
    \/ RunEvaluation

Spec == Init /\ [][Next]_vars

\* ================================================================ claims
\* the references the specification prescribes, written out literally
S_tmp_user_upload_evaluated == <<"t", "m", "p", ".", "u", "s", "e", "r", "_", "u", "p", "l", "o", "a", "d", "_", "e", "v", "a", "l", "u", "a", "t", "e", "d", "_">>

S_braces == <<"{", "}">>

ProcessedRef(id) == S_tmp \o S_user_upload_processed \o id

EvaluatedRef(id) == S_tmp_user_upload_evaluated \o id

RawRef(id) == S_tmp \o S_user_upload \o id

Pointer == session_state["out_table"]

OkJobs == {i \in 1..Len(jobs) : jobs[i].failed = "none"}

LastOk == CHOOSE i \in OkJobs : \A j \in OkJobs : j <= i

\* the latest run was a submission whose S0 write went through and whose
\* S1 connection or statement failed
S1Failed == run.block = "submit" /\ Len(calls) >= 2 /\ ~calls[Len(calls)].ok

\* the latest run was a submission whose S1 statement returned
S1Returned == run.block = "submit" /\ Len(calls) = 3 /\ calls[3].ok

\* the latest run issued the evaluation statement
EvalIssued == run.block = "evaluate" /\ Len(calls) = 2

TokenAbsentOrEmpty ==
    \/ TokenHeader \notin DOMAIN run.headers
    \/ run.headers[TokenHeader] = <<>>

\* C1 (as stated): after any submission whose S1 call failed the Session
\* Output Pointer is unset.
C1_Original == S1Failed => ~HasOutTable(session_state)

\* C1 (amended): a submission whose S1 call fails leaves the Session Output
\* Pointer as it was; and whenever the pointer is unset, pressing Fetch
\* Results runs no fetch block and issues no remote call.
C1_FailedSubmitKeepsPointer ==
    [][ /\ S1Failed' => session_state' = session_state
        /\ (run'.button = "fetch" /\ ~HasOutTable(session_state))
              => (run'.block = "none" /\ calls' = <<>>) ]_vars

C1_Witness ==
    /\ run.button = "fetch"
    /\ run.block = "none"
    /\ calls = <<>>
    /\ ~HasOutTable(session_state)
    /\ \E i \in 1..Len(jobs) : jobs[i].failed \in {"connect", "execute"}

\* C2: when the Fetch Results block runs with the X-Forwarded-Access-Token
\* header absent or empty, the run ends with the authorization error and has
\* issued no remote call: no connection, no SELECT.
C2_FetchWithoutTokenIssuesNothing ==
    (run.block = "fetch" /\ TokenAbsentOrEmpty)
        => (run.outcome = "auth_error" /\ calls = <<>>)

C2_Witness ==
    /\ run.block = "fetch"
    /\ TokenHeader \in DOMAIN run.headers
    /\ run.headers[TokenHeader] = <<>>

\* C3: every evaluation statement reads FROM exactly the table the Session
\* Output Pointer holds, which is the processed table of the most recent
\* successful submission, and its target is derived from that same value.
C3_EvalReadsCurrentPointer ==
    EvalIssued =>
        /\ calls[2].stmt.from = Pointer
        /\ OkJobs # {}
        /\ calls[2].stmt.from = ProcessedRef(jobs[LastOk].id)
        /\ calls[2].stmt.table = Replace(Pointer, S_processed, S_evaluated)

C3_Witness ==
    /\ EvalIssued
    /\ Cardinality(OkJobs) = 2
    /\ \E i \in OkJobs : jobs[i].id # jobs[LastOk].id

\* C4 (as stated): any two submissions have distinct job ids and table-name
\* sets with no name in common.
C4_Original ==
    \A i, j \in 1..Len(jobs) :
        i # j => /\ jobs[i].id # jobs[j].id
                 /\ TableNames(jobs[i].id) \cap TableNames(jobs[j].id) = {}

\* C4 (amended): any two submissions whose job ids differ have table-name
\* sets with no name in common; two submissions may draw the same id.
C4_DistinctIdsDisjointNames ==
    \A i, j \in 1..Len(jobs) :
        jobs[i].id # jobs[j].id
            => TableNames(jobs[i].id) \cap TableNames(jobs[j].id) = {}

C4_Witness ==
    /\ Len(jobs) = 2
    /\ jobs[1].id # jobs[2].id
    /\ Cardinality(TableNames(jobs[1].id) \cup TableNames(jobs[2].id)) = 6

\* C5: the S1 statement creates "tmp.user_upload_processed_" + id; at Run
\* Evaluation the pointer holds "processed" exactly once and the target is
\* "tmp.user_upload_evaluated_" + id for the same id, which is neither the raw
\* nor the processed name of that job.
C5_NamesFollowTemplates ==
    /\ (run.block = "submit" /\ Len(calls) = 3)
          => calls[3].stmt.table = ProcessedRef(run.job_id)
    /\ EvalIssued =>
          \E id \in JobIds :
              /\ Len(id) = IdLen
              /\ Pointer = ProcessedRef(id)
              /\ Count(Pointer, S_processed) = 1
              /\ calls[2].stmt.table = EvaluatedRef(id)
              /\ calls[2].stmt.table \notin {RawRef(id), ProcessedRef(id)}

C5_Witness == EvalIssued /\ calls[2].ok /\ run.outcome = "success"

\* C6: with any required configuration value missing, no remote call of any
\* stage is issued.
C6_Claim ==
    (VOLUME_NAME = <<>> \/ HTTP_PATH = <<>> \/ cfg = "missing") => calls = <<>>

\* C7: a run without an upload, or with one that fails to parse, issues no
\* remote call and enters no stage, whichever button was pressed and
\* whatever the pointer holds.
C7_NoUploadNoCalls ==
    run.uploaded \in {"absent", "malformed"}
        => (calls = <<>> /\ run.block = "none" /\ run.outcome # "success")

C7_Witness ==
    /\ run.uploaded = "malformed"
    /\ run.button = "submit"
    /\ run.outcome = "exception"
    /\ HasOutTable(session_state)

\* the template with its placeholder replaced by the value
Substituted(template, value) == Replace(template, S_braces, value)

\* C8: the S1 statement embeds the template mapped to the selected task,
\* applies it to exactly the chosen column, and the prompt the engine forms
\* for each row is that template with the row's value substituted.
C8_Claim ==
    (run.block = "submit" /\ Len(calls) = 3) =>
        /\ Literal(calls[3].stmt.fmt) = prompt_map[run.task]
        /\ calls[3].stmt.args = <<run.text_col>>
        /\ \A row \in Rows :
              RowPrompt(calls[3].stmt, row)
                  = Substituted(prompt_map[run.task], row[run.text_col])

\* C9: a run rewrites the Session Output Pointer exactly when it is a
\* submission whose S1 statement returned, and then to that submission's
\* processed reference; every other run leaves it as it was.  So the pointer
\* is unset while no submission has succeeded and otherwise names the
\* processed table of the most recent successful one.
C9_PointerFrame ==
    /\ [][ IF S1Returned'
           THEN session_state' = ("out_table" :> ProcessedRef(run'.job_id))
           ELSE session_state' = session_state ]_vars
    /\ [](IF OkJobs = {} THEN ~HasOutTable(session_state)
          ELSE HasOutTable(session_state) /\ Pointer = ProcessedRef(jobs[LastOk].id))

C9_Witness ==
    /\ run.block = "fetch"
    /\ run.outcome = "exception"
    /\ Len(jobs) = 2
    /\ jobs[1].failed = "none"
    /\ jobs[2].failed = "execute"
    /\ jobs[1].id # jobs[2].id
    /\ Pointer = ProcessedRef(jobs[1].id)

\* C10: within one job the raw, processed and evaluated tables have pairwise
\* distinct names and pairwise distinct storage locations.
C10_Claim ==
    /\ (run.block = "submit" /\ Len(calls) = 3) =>
          /\ calls[3].stmt.table # calls[1].stmt.table
          /\ calls[3].stmt.location # calls[1].stmt.location
    /\ EvalIssued =>
          /\ calls[2].stmt.table \notin {RawRef(jobs[LastOk].id), ProcessedRef(jobs[LastOk].id)}
          /\ calls[2].stmt.location # volume_path(VOLUME_NAME, jobs[LastOk].id)
====
